---------------------------- MODULE Spec2Model ----------------------------
(***************************************************************************)
(* A model of the deep-agent email assistant: the shared agent state       *)
(* (EmailAgentState), the file-table reducer, the tools that read and      *)
(* write the state, and the task tool that delegates to a sub-agent on a   *)
(* shallow copy of the coordinator's state.                                *)
(*                                                                         *)
(* Python values that are mutated in place (the files dict) live in a      *)
(* heap and are held by reference, so that sharing between the             *)
(* coordinator's state and a sub-agent's state is an outcome of the model  *)
(* and not an assumption.  Optional values are sequences of length 0       *)
(* (absent, Python's None or a missing key) or 1.                          *)
(***************************************************************************)
EXTENDS Integers, Sequences, FiniteSets, TLC

VARIABLES
    heap,     \* address -> None (free) or Some(file table): the dict objects
    state,    \* the coordinator's EmailAgentState (files held by address)
    sub,      \* the running sub-agent, if any, and its own EmailAgentState
    last,     \* the last tool call: who, which tool, arguments, returned text
    deltas,   \* the file deltas waiting to be folded, by address
    folded,   \* how many of them have been folded
    writes,   \* overlap specification: what each overlapping call wrote
    setup     \* what create_task_delegation_tool made of the configuration

vars == <<heap, state, sub, last, deltas, folded, writes, setup>>

-----------------------------------------------------------------------------
(* Optional values *)

None == <<>>

Some(x) == <<x>>

Min(a, b) == IF a < b THEN a ELSE b

Max(a, b) == IF a > b THEN a ELSE b

-----------------------------------------------------------------------------
(***************************************************************************)
(* Text.  A text is a sequence of chunks [ch, n, w]: n repetitions of the  *)
(* first w characters of the string ch.  A single character repeated is    *)
(* [ch |-> "a", n |-> 2001, w |-> 1]; a literal of the source is           *)
(* [ch |-> "Error: ", n |-> 1, w |-> 7].  Slicing counts characters.       *)
(***************************************************************************)

Rep(c, k) == IF k <= 0 THEN <<>> ELSE <<[ch |-> c, n |-> k, w |-> 1]>>

Chr(c) == Rep(c, 1)

Lit(s, width) == IF width <= 0 THEN <<>> ELSE <<[ch |-> s, n |-> 1, w |-> width]>>

NL == Chr("\n")

ChunkLen(c) == c.n * c.w

RECURSIVE StrLen(_)
StrLen(s) == IF s = <<>> THEN 0 ELSE ChunkLen(Head(s)) + StrLen(Tail(s))

\* The first k characters of one chunk.
ChunkTake(c, k) ==
    IF k >= ChunkLen(c) THEN <<c>>
    ELSE IF k <= 0 THEN <<>>
    ELSE IF c.w = 1 THEN <<[c EXCEPT !.n = k]>>
    ELSE <<[c EXCEPT !.w = k]>>

\* s[:k] for k >= 0
RECURSIVE Take(_, _)
Take(s, k) ==
    IF s = <<>> \/ k <= 0 THEN <<>>
    ELSE IF ChunkLen(Head(s)) >= k THEN ChunkTake(Head(s), k)
    ELSE <<Head(s)>> \o Take(Tail(s), k - ChunkLen(Head(s)))

\* The k-th character (1-based) of a text of single-character chunks.
RECURSIVE CharAt(_, _)
CharAt(s, k) ==
    IF k <= Head(s).n THEN Head(s).ch ELSE CharAt(Tail(s), k - Head(s).n)

\* s[k:] for a text of single-character chunks, k >= 0
RECURSIVE Drop(_, _)
Drop(s, k) ==
    IF s = <<>> \/ k <= 0 THEN s
    ELSE IF Head(s).n > k THEN <<[Head(s) EXCEPT !.n = @ - k]>> \o Tail(s)
    ELSE Drop(Tail(s), k - Head(s).n)

DigitChars == <<"0", "1", "2", "3", "4", "5", "6", "7", "8", "9">>

\* str(i) for i >= 0
RECURSIVE Digits(_)
Digits(i) ==
    IF i < 10 THEN Chr(DigitChars[i + 1])
    ELSE Digits(i \div 10) \o Chr(DigitChars[(i % 10) + 1])

\* str(i) for any integer
IntStr(i) == IF i < 0 THEN Chr("-") \o Digits(-i) ELSE Digits(i)

\* f"{i:{width}d}": right-aligned, padded with spaces to at least width
FormatInt(i, width) == Rep(" ", width - StrLen(IntStr(i))) \o IntStr(i)

\* sep.join(parts)
RECURSIVE Join(_, _)
Join(sep, parts) ==
    IF parts = <<>> THEN <<>>
    ELSE IF Len(parts) = 1 THEN parts[1]
    ELSE parts[1] \o sep \o Join(sep, Tail(parts))

\* str.splitlines() over the line boundary "\n": a line break ends the
\* current line, and what follows the last break is a line only if it is
\* not empty.
RECURSIVE SplitAcc(_, _, _)
SplitAcc(s, cur, out) ==
    IF s = <<>> THEN (IF cur = <<>> THEN out ELSE Append(out, cur))
    ELSE IF Head(s).ch = "\n"
         THEN SplitAcc(Drop(s, 1), <<>>, Append(out, cur))
         ELSE SplitAcc(Tail(s), Append(cur, Head(s)), out)

splitlines(s) == SplitAcc(s, <<>>, <<>>)

-----------------------------------------------------------------------------
(* Bounds of the model *)

\* how many file deltas the fold specification folds
MaxDeltas == 3

\* the longest conversation of the coordinator (the instruction included)
MaxMsgs == 4

\* how many tool calls a sub-agent makes at most before it answers
MaxSubCalls == 2

\* the longest file content, in chunks, the read specification writes
MaxChunks == 3

-----------------------------------------------------------------------------
(* The values the model draws its inputs from *)

Paths == {Lit("notes.md", 8), Lit("reply.md", 8)}

Contents == {Chr("x"), Chr("y")}

\* every file table over the model's paths and contents, the empty one included
Tables == UNION {[D -> Contents] : D \in SUBSET Paths}

-----------------------------------------------------------------------------
(***************************************************************************)
(* The file-table reducer.  The arguments are optional tables (None is     *)
(* Python's None); the result names the object returned (the right         *)
(* argument itself, the left argument itself, or a new dict) and its       *)
(* value.                                                                  *)
(***************************************************************************)

\* {**left, **right}
DictMerge(left, right) ==
    [k \in (DOMAIN left) \cup (DOMAIN right) |->
        IF k \in DOMAIN right THEN right[k] ELSE left[k]]

DictMergeLeftWins(left, right) ==
    [k \in (DOMAIN left) \cup (DOMAIN right) |->
        IF k \in DOMAIN left THEN left[k] ELSE right[k]]

file_reducer_left_wins(left, right) ==
    IF left = None THEN [obj |-> "right", val |-> right]
    ELSE IF right = None THEN [obj |-> "left", val |-> left]
    ELSE [obj |-> "new", val |-> Some(DictMergeLeftWins(left[1], right[1]))]

file_reducer_drops_left(left, right) ==
    IF right = None THEN [obj |-> "left", val |-> left]
    ELSE [obj |-> "right", val |-> right]

file_reducer(left, right) ==
    IF left = None THEN [obj |-> "right", val |-> right]
    ELSE IF right = None THEN [obj |-> "left", val |-> left]
    ELSE [obj |-> "new", val |-> Some(DictMerge(left[1], right[1]))]

-----------------------------------------------------------------------------
(***************************************************************************)
(* The heap of dict objects.  Address 0 is "no object" (None, or a key     *)
(* missing from the state).  Objects no state refers to are reclaimed.     *)
(***************************************************************************)

NumAddr == MaxDeltas + 2

Addr == 1 .. NumAddr

NoRef == 0

EmptyHeap == [a \in Addr |-> None]

\* the value an address holds: None for "no object", else Some(table)
Deref(h, r) == IF r = NoRef THEN None ELSE h[r]

\* a new dict object: the lowest free address
Alloc(h) == CHOOSE a \in Addr : h[a] = None /\ \A b \in Addr : h[b] = None => a <= b

\* keep the objects reachable from roots
Collect(h, roots) == [a \in Addr |-> IF a \in roots THEN h[a] ELSE None]

\* file_reducer on two references: the reference of the result and the heap
Reduce(h, left, right) ==
    LET r == file_reducer(Deref(h, left), Deref(h, right))
    IN  IF r.obj = "right" THEN [ref |-> right, heap |-> h]
        ELSE IF r.obj = "left" THEN [ref |-> left, heap |-> h]
        ELSE LET a == Alloc(h)
             IN  [ref |-> a, heap |-> [h EXCEPT ![a] = r.val]]

-----------------------------------------------------------------------------
(***************************************************************************)
(* EmailAgentState: messages (AgentState), todos, files (folded with       *)
(* file_reducer), current_email, email_draft.  Every key but messages may  *)
(* be missing.                                                             *)
(***************************************************************************)

EmptyState ==
    [messages |-> <<>>, files |-> NoRef, current_email |-> None,
     email_draft |-> None, todos |-> None]

Msg(role, content) == [role |-> role, content |-> content]

\* a state with its files table read through the heap: what the state holds
View(h, st) ==
    [messages |-> st.messages, files |-> Deref(h, st.files),
     current_email |-> st.current_email, email_draft |-> st.email_draft,
     todos |-> st.todos]

\* state.get("files", {}): the state's own dict, or a new empty one
GetFiles(h, st) ==
    IF st.files # NoRef THEN [ref |-> st.files, heap |-> h]
    ELSE LET a == Alloc(h)
         IN  [ref |-> a, heap |-> [h EXCEPT ![a] = Some(<<>>)]]

\* a fold of updates that takes current_email from every update, an update
\* without one included
ApplyUpdateClearsEmail(h, st, upd) ==
    LET r == IF upd.files = None THEN [ref |-> st.files, heap |-> h]
             ELSE Reduce(h, st.files, upd.files[1])
    IN  [heap |-> r.heap,
         st |-> [messages |-> st.messages \o upd.messages,
                 files |-> r.ref,
                 current_email |-> upd.current_email,
                 email_draft |-> IF upd.email_draft = None
                                 THEN st.email_draft
                                 ELSE Some(upd.email_draft[1]),
                 todos |-> IF upd.todos = None THEN st.todos
                           ELSE Some(upd.todos[1])]]

\* a fold of updates that never overwrites todos
ApplyUpdateKeepsTodos(h, st, upd) ==
    LET r == IF upd.files = None THEN [ref |-> st.files, heap |-> h]
             ELSE Reduce(h, st.files, upd.files[1])
    IN  [heap |-> r.heap,
         st |-> [messages |-> st.messages \o upd.messages,
                 files |-> r.ref,
                 current_email |-> IF upd.current_email = None
                                   THEN st.current_email
                                   ELSE Some(upd.current_email[1]),
                 email_draft |-> IF upd.email_draft = None
                                 THEN st.email_draft
                                 ELSE Some(upd.email_draft[1]),
                 todos |-> st.todos]]

\* The runtime folds a tool's update into the state: files through
\* file_reducer, messages appended, every other key overwritten.  An update
\* is a record of optional values; files is given by reference.
ApplyUpdate(h, st, upd) ==
    LET r == IF upd.files = None THEN [ref |-> st.files, heap |-> h]
             ELSE Reduce(h, st.files, upd.files[1])
    IN  [heap |-> r.heap,
         st |-> [messages |-> st.messages \o upd.messages,
                 files |-> r.ref,
                 current_email |-> IF upd.current_email = None
                                   THEN st.current_email
                                   ELSE Some(upd.current_email[1]),
                 email_draft |-> IF upd.email_draft = None
                                 THEN st.email_draft
                                 ELSE Some(upd.email_draft[1]),
                 todos |-> IF upd.todos = None THEN st.todos
                           ELSE Some(upd.todos[1])]]

\* an update that only appends messages
MsgUpdate(msgs) ==
    [messages |-> msgs, files |-> None, current_email |-> None,
     email_draft |-> None, todos |-> None]

\* a tool that returns plain text: the runtime appends it as a tool message
TextUpdate(text) == MsgUpdate(<<Msg("tool", text)>>)

-----------------------------------------------------------------------------
(* The record of the last tool call *)

NoArgs ==
    [path |-> <<>>, content |-> <<>>, offset |-> 0, limit |-> 0,
     query |-> <<>>, max_results |-> 0, reflection |-> <<>>, todos |-> <<>>,
     description |-> <<>>, subagent_type |-> <<>>]

Idle ==
    [active |-> FALSE, name |-> <<>>, description |-> <<>>,
     st |-> EmptyState, calls |-> 0, parent |-> View(EmptyHeap, EmptyState)]

NoCall ==
    [who |-> "none", tool |-> "none", args |-> NoArgs, ret |-> <<>>,
     pre |-> View(EmptyHeap, EmptyState),
     subresult |-> View(EmptyHeap, EmptyState)]

\* the dict objects some state or pending delta refers to
Range(f) == {f[i] : i \in DOMAIN f}

Roots == ({state.files, sub.st.files} \cup Range(deltas)) \ {NoRef}

-----------------------------------------------------------------------------
(***************************************************************************)
(* The mock inbox and the email tools                                      *)
(***************************************************************************)

MOCK_EMAILS ==
    <<[id |-> Lit("email_001", 9),
       from_address |-> Lit("john.doe@techcorp.com", 21),
       subject |-> Lit("Partnership Proposal - AI Integration", 37),
       body |-> Lit("Hi there, ... john.doe@techcorp.com\n", 765),
       received_at |-> Lit("2026-01-14T09:30:00Z", 20)],
      [id |-> Lit("email_002", 9),
       from_address |-> Lit("sarah.smith@startup.io", 22),
       subject |-> Lit("Research Collaboration Inquiry", 30),
       body |-> Lit("Hello, ... Stanford University\n", 498),
       received_at |-> Lit("2026-01-14T14:15:00Z", 20)]>>

\* what a tool hands back: the heap after its in-place writes, the update
\* for the runtime to fold, and the text of its message
Out(h, upd, text) == [heap |-> h, upd |-> upd, ret |-> text]

\* a tool that returns plain text and touches nothing
Plain(h, text) == Out(h, TextUpdate(text), text)

LatestOf(emails) == emails[Len(emails)]

FirstOf(emails) == emails[1]

first_email == FirstOf(MOCK_EMAILS)

\* MOCK_EMAILS[-1]
latest_email == LatestOf(MOCK_EMAILS)

read_latest_email(h, st) ==
    LET email_obj ==
            [id |-> latest_email.id,
             from_address |-> latest_email.from_address,
             subject |-> latest_email.subject,
             body |-> latest_email.body,
             received_at |-> latest_email.received_at]
        email_summary ==
            Lit("Latest Email Retrieved:\n\n**From:** ", 37)
            \o email_obj.from_address
            \o Lit("\n**Subject:** ", 14) \o email_obj.subject
            \o Lit("\n**Received:** ", 15) \o email_obj.received_at
            \o Lit("\n\n**Body:**\n", 12) \o Take(email_obj.body, 300)
            \o Lit("...\n\nEmail stored in state for processing.", 42)
    IN  Out(h, [MsgUpdate(<<Msg("tool", email_summary)>>)
                   EXCEPT !.current_email = Some(email_obj)],
            email_summary)

NoEmailError == Lit("Error: No email in context. Use read_latest_email first.", 56)

DraftClosing == Lit("\n\n---\nThis draft is ready for review and sending.\n", 50)

\* a draft whose subject repeats the original subject without "Re: "
DraftTextSameSubject(email, draft_content) ==
    Lit("To: ", 4) \o email.from_address
    \o Lit("\nSubject: ", 10) \o email.subject
    \o Lit("\n\n", 2) \o draft_content \o DraftClosing

DraftText(email, draft_content) ==
    Lit("To: ", 4) \o email.from_address
    \o Lit("\nSubject: Re: ", 14) \o email.subject
    \o Lit("\n\n", 2) \o draft_content \o DraftClosing

write_email_draft_unchecked(h, st, draft_content) ==
    LET email == IF st.current_email = None THEN FirstOf(MOCK_EMAILS)
                 ELSE st.current_email[1]
        draft == DraftText(email, draft_content)
    IN  Out(h, [MsgUpdate(<<Msg("tool", draft)>>) EXCEPT !.email_draft = Some(draft)],
            draft)

write_email_draft(h, st, draft_content) ==
    IF st.current_email = None
    THEN Out(h, MsgUpdate(<<Msg("tool", NoEmailError)>>), NoEmailError)
    ELSE LET draft == DraftText(st.current_email[1], draft_content)
             text == Lit("Email draft created and saved.\n\nPreview:\n", 43)
                     \o Take(draft, 200) \o Lit("...", 3)
         IN  Out(h, [MsgUpdate(<<Msg("tool", text)>>)
                        EXCEPT !.email_draft = Some(draft)],
                 text)

get_email_context(h, st) ==
    IF st.current_email = None
    THEN Plain(h, Lit("No email currently loaded in context.", 37))
    ELSE LET e == st.current_email[1]
         IN  Plain(h, Lit("Current Email Context:\n\nFrom: ", 30) \o e.from_address
                      \o Lit("\nSubject: ", 10) \o e.subject
                      \o Lit("\nReceived: ", 11) \o e.received_at
                      \o Lit("\n\nBody:\n", 8) \o e.body \o NL)

-----------------------------------------------------------------------------
(***************************************************************************)
(* The file tools                                                          *)
(***************************************************************************)

\* a set as a sequence, in an order the model fixes (a dict lists its keys in
\* insertion order, which the model does not keep)
RECURSIVE SetToSeq(_)
SetToSeq(S) ==
    IF S = {} THEN <<>>
    ELSE LET x == CHOOSE y \in S : TRUE IN <<x>> \o SetToSeq(S \ {x})

\* str(list of str)
ListRepr(items) ==
    Chr("[")
    \o Join(Lit(", ", 2), [i \in 1 .. Len(items) |-> Chr("'") \o items[i] \o Chr("'")])
    \o Chr("]")

\* the table state.get("files", {}) reads
FilesOf(h, st) == IF st.files = NoRef THEN <<>> ELSE h[st.files][1]

ls(h, st) == Plain(h, ListRepr(SetToSeq(DOMAIN FilesOf(h, st))))

\* lines[i] of Python, for an index the list has (negative: from the end)
PyIndex(lines, i) == IF i >= 0 THEN lines[i + 1] ELSE lines[Len(lines) + i + 1]

PyIndexOk(lines, i) == -Len(lines) <= i /\ i < Len(lines)

\* the longest line read_file returns
LineLimit == 2000

\* the width of read_file's line numbers
NumberWidth == 6

NoTruncation(line_content) == line_content

Truncate(line_content) == Take(line_content, LineLimit)

\* a numbering that starts at zero: f"{i:6d}\t{line_content}"
NumberedLineFromZero(i, line_content) ==
    FormatInt(i, NumberWidth) \o Chr("\t") \o line_content

\* f"{i + 1:6d}\t{line_content}"
NumberedLine(i, line_content) ==
    FormatInt(i + 1, NumberWidth) \o Chr("\t") \o line_content

FileNotFound(file_path) ==
    Lit("Error: File '", 13) \o file_path
    \o Lit("' not found. Use ls() to see available files.", 45)

FileEmpty == Lit("File exists but is empty.", 25)

OffsetError(offset, total) ==
    Lit("Error: Offset ", 14) \o IntStr(offset)
    \o Lit(" exceeds file length (", 22) \o IntStr(total) \o Lit(" lines)", 7)

IndexError == Lit("IndexError('list index out of range')", 37)

read_file_text_no_range_check(files, file_path, offset, limit) ==
    IF file_path \notin DOMAIN files THEN FileNotFound(file_path)
    ELSE IF files[file_path] = <<>> THEN FileEmpty
    ELSE LET lines == splitlines(files[file_path])
             end_idx == Min(offset + limit, Len(lines))
             count == Max(end_idx - offset, 0)
         IN  IF \E i \in offset .. end_idx - 1 : ~PyIndexOk(lines, i) THEN <<>>
             ELSE Join(NL, [k \in 1 .. count |->
                      NumberedLine(offset + k - 1,
                                   Truncate(PyIndex(lines, offset + k - 1)))])

\* the text read_file returns
read_file_text(files, file_path, offset, limit) ==
    IF file_path \notin DOMAIN files THEN FileNotFound(file_path)
    ELSE IF files[file_path] = <<>> THEN FileEmpty
    ELSE LET lines == splitlines(files[file_path])
             start_idx == offset
             end_idx == Min(start_idx + limit, Len(lines))
             count == Max(end_idx - start_idx, 0)
         IN  IF start_idx >= Len(lines) THEN OffsetError(offset, Len(lines))
             ELSE IF \E i \in start_idx .. end_idx - 1 : ~PyIndexOk(lines, i)
             THEN IndexError
             ELSE Join(NL, [k \in 1 .. count |->
                      NumberedLine(start_idx + k - 1,
                                   Truncate(PyIndex(lines, start_idx + k - 1)))])

read_file(h, st, file_path, offset, limit) ==
    Plain(h, read_file_text(FilesOf(h, st), file_path, offset, limit))

\* an assignment that leaves the dict with the assigned key alone
PutAlone(h, ref, key, value) == [h EXCEPT ![ref] = Some((key :> value))]

\* files[key] = value, in place
Put(h, ref, key, value) ==
    [h EXCEPT ![ref] =
        Some([k \in (DOMAIN @[1]) \cup {key} |-> IF k = key THEN value ELSE @[1][k]])]

\* a write_file whose delta is a new table that holds the written key alone
write_file_new_table(h, st, file_path, content) ==
    LET a == Alloc(h)
        text == Lit("File '", 8) \o file_path \o Lit("' written successfully", 22)
    IN  Out([h EXCEPT ![a] = Some((file_path :> content))],
            [MsgUpdate(<<Msg("tool", text)>>) EXCEPT !.files = Some(a)],
            text)

write_file(h, st, file_path, content) ==
    LET files == GetFiles(h, st)
        text == Lit("File '", 8) \o file_path \o Lit("' written successfully", 22)
    IN  Out(Put(files.heap, files.ref, file_path, content),
            [MsgUpdate(<<Msg("tool", text)>>) EXCEPT !.files = Some(files.ref)],
            text)

-----------------------------------------------------------------------------
(***************************************************************************)
(* The search tools.  Symbols outside ASCII in the source's literals are   *)
(* left out of the strings here and counted in their widths.               *)
(***************************************************************************)

\* s.replace(a, b) for single characters
Replace(s, a, b) == [i \in 1 .. Len(s) |-> IF s[i].ch = a THEN [s[i] EXCEPT !.ch = b] ELSE s[i]]

\* items[:k] of Python
PyPrefix(items, k) ==
    IF k >= 0 THEN SubSeq(items, 1, Min(k, Len(items)))
    ELSE SubSeq(items, 1, Max(Len(items) + k, 0))

\* get_today_str(): the date of the run
get_today_str == Lit("<today>", 16)

mock_tavily_search(query, max_results) ==
    PyPrefix(
        <<[title |-> Lit("Search Result for: ", 19) \o query,
           url |-> Lit("https://example.com/search/", 27) \o Replace(query, " ", "-"),
           content |-> Lit("This is a mock search result for '", 34) \o query
                       \o Lit("'. In production, this would contain actual search results from Tavily API.", 75),
           score |-> Lit("0.95", 4)],
          [title |-> Lit("Additional Information: ", 24) \o query,
           url |-> Lit("https://example.com/info/", 25) \o Replace(query, " ", "-"),
           content |-> Lit("Additional context and information related to '", 47) \o query
                       \o Lit("'. This demonstrates how multiple search results would be processed.", 68),
           score |-> Lit("0.87", 4)]>>,
        max_results)

\* the longest sanitized query a search file's name keeps
QueryCut == 30

\* f"search_{query.replace(' ', '_')[:30]}_{i+1}.md", i counted from 0
SearchFilename(query, i) ==
    Lit("search_", 7) \o Take(Replace(query, " ", "_"), QueryCut)
    \o Chr("_") \o IntStr(i + 1) \o Lit(".md", 3)

SearchFileContent(query, result) ==
    Lit("# Search Result: ", 17) \o result.title
    \o Lit("\n\n**URL:** ", 11) \o result.url
    \o Lit("\n**Query:** ", 12) \o query
    \o Lit("\n**Date:** ", 11) \o get_today_str
    \o Lit("\n**Relevance Score:** ", 22) \o result.score
    \o Lit("\n\n## Content\n", 13) \o result.content
    \o Lit("\n\n---\n*This information can be used to inform email responses.*\n", 64)

\* the loop over the results: files[filename] = file_content, in place
RECURSIVE SaveResults(_, _, _, _, _)
SaveResults(h, ref, query, results, i) ==
    IF i >= Len(results) THEN h
    ELSE SaveResults(Put(h, ref, SearchFilename(query, i),
                         SearchFileContent(query, results[i + 1])),
                     ref, query, results, i + 1)

web_search(h, st, query, max_results) ==
    LET results == mock_tavily_search(query, max_results)
        files == GetFiles(h, st)
        saved_files == [i \in 1 .. Len(results) |-> SearchFilename(query, i - 1)]
        summaries == [i \in 1 .. Len(results) |->
                         Lit("- ", 2) \o saved_files[i] \o Lit(": ", 2) \o results[i].title]
        summary_text ==
            Lit("Found ", 8) \o IntStr(Len(results))
            \o Lit(" result(s) for '", 16) \o query \o Lit("':\n\n", 4)
            \o Join(NL, summaries)
            \o Lit("\n\nFiles saved: ", 15) \o Join(Lit(", ", 2), saved_files)
            \o Lit("\nUse read_file() to access full details when crafting your response.", 70)
    IN  Out(SaveResults(files.heap, files.ref, query, results, 0),
            [MsgUpdate(<<Msg("tool", summary_text)>>) EXCEPT !.files = Some(files.ref)],
            summary_text)

\* the longest reflection think_tool echoes
ReflectionCut == 100

think_tool(h, reflection) ==
    Plain(h, Lit("Reflection recorded: ", 23) \o Take(reflection, ReflectionCut)
             \o Lit("...", 3))

-----------------------------------------------------------------------------
(***************************************************************************)
(* The TODO tools                                                          *)
(***************************************************************************)

write_todos(h, todos) ==
    LET text == Lit("TODO list updated with ", 25) \o IntStr(Len(todos))
                \o Lit(" tasks", 6)
    IN  Out(h, [MsgUpdate(<<Msg("tool", text)>>) EXCEPT !.todos = Some(todos)], text)

\* status_emoji.get(status, "?"), each one symbol wide
StatusEmoji(status) ==
    IF status = Lit("pending", 7) THEN Lit("<hourglass>", 1)
    ELSE IF status = Lit("in_progress", 11) THEN Lit("<arrows>", 1)
    ELSE IF status = Lit("completed", 9) THEN Lit("<check>", 1)
    ELSE Lit("<question>", 1)

\* the rendering of the list, .strip() having removed the last line break
read_todos(h, st) ==
    LET todos == IF st.todos = None THEN <<>> ELSE st.todos[1]
        row(i) == IntStr(i) \o Lit(". ", 2) \o StatusEmoji(todos[i].status)
                  \o Chr(" ") \o todos[i].content \o Lit(" (", 2)
                  \o todos[i].status \o Chr(")")
    IN  IF todos = <<>> THEN Plain(h, Lit("No TODOs currently in the list.", 31))
        ELSE Plain(h, Lit("Current TODO List:\n", 19)
                      \o Join(NL, [i \in 1 .. Len(todos) |-> row(i)]))

-----------------------------------------------------------------------------
(***************************************************************************)
(* The tool registry and the sub-agents                                    *)
(***************************************************************************)

base_tools ==
    {"read_latest_email", "write_email_draft", "get_email_context",
     "web_search", "think_tool", "ls", "read_file", "write_file",
     "write_todos", "read_todos"}

coordinator_tools == base_tools \cup {"task"}

ResearchAgent == Lit("research-agent", 14)

ResponseAgent == Lit("response-agent", 14)

\* a configuration whose response-agent may write the draft
subagents_response_writes_draft ==
    <<[name |-> ResearchAgent,
       tools |-> {"web_search", "think_tool", "ls", "read_file", "write_file"}],
      [name |-> ResponseAgent,
       tools |-> {"get_email_context", "ls", "read_file", "think_tool", "write_file",
                  "write_email_draft"}]>>

subagents ==
    <<[name |-> ResearchAgent,
       tools |-> {"web_search", "think_tool", "ls", "read_file", "write_file"}],
      [name |-> ResponseAgent,
       tools |-> {"get_email_context", "ls", "read_file", "think_tool", "write_file"}]>>

\* a construction that looks no tool up: the agents get the names as given
create_task_delegation_tool_unchecked(tools, configuration) ==
    [status |-> "built",
     agents |-> [i \in 1 .. Len(configuration) |->
                   [name |-> configuration[i].name,
                    tools |-> IF "tools" \in DOMAIN configuration[i]
                              THEN configuration[i].tools ELSE tools]]]

\* create_task_delegation_tool(tools, subagents): the registry holds the
\* tools by name; a configuration with a "tools" key gets the tools it names,
\* looked up in the registry (a name the registry lacks raises KeyError, and
\* nothing is returned), and one without gets every tool
create_task_delegation_tool(tools, configuration) ==
    IF \E i \in 1 .. Len(configuration) :
          /\ "tools" \in DOMAIN configuration[i]
          /\ ~(configuration[i].tools \subseteq tools)
    THEN [status |-> "KeyError", agents |-> <<>>]
    ELSE [status |-> "built",
          agents |-> [i \in 1 .. Len(configuration) |->
                        [name |-> configuration[i].name,
                         tools |-> IF "tools" \in DOMAIN configuration[i]
                                   THEN configuration[i].tools ELSE tools]]]

\* create_email_agent with this configuration of sub-agents: the task tool
\* is built from the base tools before the coordinator is; if building it
\* raises, no agent is returned
create_email_agent(configuration) ==
    LET task_tool == create_task_delegation_tool(base_tools, configuration)
    IN  [configuration |-> configuration,
         status |-> task_tool.status,
         agents |-> task_tool.agents]

\* create_task_delegation_tool: the sub-agents by name, each with the tools
\* its configuration names, looked up in the registry of the base tools
agents == create_task_delegation_tool(base_tools, subagents).agents

AgentNames == {agents[i].name : i \in DOMAIN agents}

AgentTools(name) ==
    UNION {agents[i].tools \cap base_tools : i \in {j \in DOMAIN agents : agents[j].name = name}}

\* one tool called with its arguments on a state
RunTool(tool, a, h, st) ==
    CASE tool = "read_latest_email" -> read_latest_email(h, st)
      [] tool = "write_email_draft" -> write_email_draft(h, st, a.content)
      [] tool = "get_email_context" -> get_email_context(h, st)
      [] tool = "web_search" -> web_search(h, st, a.query, a.max_results)
      [] tool = "think_tool" -> think_tool(h, a.reflection)
      [] tool = "ls" -> ls(h, st)
      [] tool = "read_file" -> read_file(h, st, a.path, a.offset, a.limit)
      [] tool = "write_file" -> write_file(h, st, a.path, a.content)
      [] tool = "write_todos" -> write_todos(h, a.todos)
      [] tool = "read_todos" -> read_todos(h, st)

\* the character U+0060
Backquote == Lit("<backquote>", 1)

UnknownAgentErrorFirstOnly(subagent_type) ==
    Lit("Error: invoked agent of type ", 29) \o subagent_type
    \o Lit(", the only allowed types are ", 29)
    \o ListRepr(<<Backquote \o subagents[1].name \o Backquote>>)

\* the error task returns for a sub-agent type it does not know
UnknownAgentError(subagent_type) ==
    Lit("Error: invoked agent of type ", 29) \o subagent_type
    \o Lit(", the only allowed types are ", 29)
    \o ListRepr([i \in 1 .. Len(agents) |-> Backquote \o agents[i].name \o Backquote])

\* isolated_state = state.copy(); isolated_state["messages"] = [...]: a
\* shallow copy, every other key holding the object the parent's key holds
IsolatedState(st, description) ==
    [st EXCEPT !.messages = <<Msg("user", description)>>]

\* sub_agent.invoke(isolated_state): the input folded into a fresh state
InvokeInput(h, isolated_state) ==
    ApplyUpdate(h, EmptyState,
        [messages |-> isolated_state.messages,
         files |-> IF isolated_state.files = NoRef THEN None
                   ELSE Some(isolated_state.files),
         current_email |-> isolated_state.current_email,
         email_draft |-> isolated_state.email_draft,
         todos |-> isolated_state.todos])

LastMessage(st) == st.messages[Len(st.messages)]

task_update_all_messages(h, result) ==
    LET files == GetFiles(h, result)
    IN  Out(files.heap,
            [MsgUpdate([i \in 1 .. Len(result.messages) |->
                           Msg("tool", result.messages[i].content)])
                EXCEPT !.files = Some(files.ref)],
            LastMessage(result).content)

task_update_no_files(h, result) ==
    Out(h, MsgUpdate(<<Msg("tool", LastMessage(result).content)>>),
        LastMessage(result).content)

\* the update task returns: the sub-agent's files (an empty dict if it has
\* none) and one message, the content of the sub-agent's last message
task_update(h, result) ==
    LET files == GetFiles(h, result)
    IN  Out(files.heap,
            [MsgUpdate(<<Msg("tool", LastMessage(result).content)>>)
                EXCEPT !.files = Some(files.ref)],
            LastMessage(result).content)

-----------------------------------------------------------------------------
(***************************************************************************)
(* The arguments the model calls the tools with                            *)
(***************************************************************************)

\* read_file's default limit
DefaultLimit == 2000

\* web_search's max_results, which the runtime never takes from the model
DefaultMaxResults == 2

Queries == {Chr("q") \o Chr(" ") \o Chr("r")}

TodoLists ==
    {<<>>,
     <<[content |-> Lit("reply", 5), status |-> Lit("in_progress", 11)]>>}

UnknownAgent == Lit("review-agent", 12)

Descriptions == {Lit("find facts", 10)}

Answers == {Lit("summary", 7)}

SubContents == {Chr("z")}

ArgSets(tool) ==
    CASE tool = "write_email_draft" -> {[NoArgs EXCEPT !.content = c] : c \in Contents}
      [] tool = "web_search" ->
            {[NoArgs EXCEPT !.query = q, !.max_results = DefaultMaxResults] : q \in Queries}
      [] tool = "think_tool" -> {[NoArgs EXCEPT !.reflection = Lit("plan", 4)]}
      [] tool = "read_file" ->
            {[NoArgs EXCEPT !.path = p, !.limit = DefaultLimit] :
                p \in {CHOOSE q \in Paths : TRUE}}
      [] tool = "write_file" ->
            {[NoArgs EXCEPT !.path = p, !.content = c] : p \in Paths, c \in Contents}
      [] tool = "write_todos" -> {[NoArgs EXCEPT !.todos = t] : t \in TodoLists}
      [] tool = "task" ->
            {[NoArgs EXCEPT !.description = d, !.subagent_type = n] :
                d \in Descriptions, n \in AgentNames \cup {UnknownAgent}}
      [] OTHER -> {NoArgs}

SubArgSets(tool) ==
    CASE tool = "write_file" ->
            {[NoArgs EXCEPT !.path = p, !.content = c] : p \in Paths, c \in SubContents}
      [] tool = "read_file" ->
            {[NoArgs EXCEPT !.path = p, !.limit = DefaultLimit] :
                p \in {CHOOSE q \in Paths : TRUE}}
      [] OTHER -> ArgSets(tool)

-----------------------------------------------------------------------------
(***************************************************************************)
(* The run of the coordinator: process_email starts it on a state that     *)
(* holds the instruction alone; each step is one tool call, its update     *)
(* folded into the state before the next.                                  *)
(***************************************************************************)

Instruction ==
    Lit("Please process the latest email and compose an appropriate response.", 68)

Init ==
    /\ heap = EmptyHeap
    /\ state = [EmptyState EXCEPT !.messages = <<Msg("user", Instruction)>>]
    /\ sub = Idle
    /\ last = NoCall
    /\ deltas = <<>>
    /\ folded = 0
    /\ writes = <<>>
    /\ setup = create_email_agent(subagents)

CanCall == ~sub.active /\ Len(state.messages) < MaxMsgs

\* the coordinator calls a tool of its own on its state
CoordCall(tool, a) ==
    /\ CanCall
    /\ tool \in coordinator_tools
    /\ LET out == RunTool(tool, a, heap, state)
           r == ApplyUpdate(out.heap, state, out.upd)
       IN  /\ state' = r.st
           /\ UNCHANGED <<sub, deltas, folded, writes, setup>>
           /\ heap' = Collect(r.heap, Roots')
           /\ last' = [who |-> "coordinator", tool |-> tool, args |-> a,
                       ret |-> out.ret, pre |-> View(heap, state),
                       subresult |-> View(EmptyHeap, EmptyState)]

ReadLatestEmail == \E a \in ArgSets("read_latest_email") : CoordCall("read_latest_email", a)

WriteEmailDraft == \E a \in ArgSets("write_email_draft") : CoordCall("write_email_draft", a)

GetEmailContext == \E a \in ArgSets("get_email_context") : CoordCall("get_email_context", a)

WebSearch == \E a \in ArgSets("web_search") : CoordCall("web_search", a)

ThinkTool == \E a \in ArgSets("think_tool") : CoordCall("think_tool", a)

Ls == \E a \in ArgSets("ls") : CoordCall("ls", a)

ReadFile == \E a \in ArgSets("read_file") : CoordCall("read_file", a)

WriteFile == \E a \in ArgSets("write_file") : CoordCall("write_file", a)

WriteTodos == \E a \in ArgSets("write_todos") : CoordCall("write_todos", a)

ReadTodos == \E a \in ArgSets("read_todos") : CoordCall("read_todos", a)

\* task with a sub-agent type that is not registered: the error text is the
\* tool's result, and the run goes on
TaskUnknown ==
    \E a \in ArgSets("task") :
       /\ CanCall
       /\ a.subagent_type \notin AgentNames
       /\ LET text == UnknownAgentError(a.subagent_type)
              r == ApplyUpdate(heap, state, TextUpdate(text))
          IN  /\ state' = r.st
              /\ UNCHANGED <<sub, deltas, folded, writes, setup>>
              /\ heap' = Collect(r.heap, Roots')
              /\ last' = [who |-> "coordinator", tool |-> "task", args |-> a,
                          ret |-> text, pre |-> View(heap, state),
                          subresult |-> View(EmptyHeap, EmptyState)]

\* task with a registered sub-agent, up to sub_agent.invoke: the sub-agent
\* starts on the isolated state
TaskStart ==
    \E a \in ArgSets("task") :
       /\ CanCall
       /\ a.subagent_type \in AgentNames
       /\ LET r == InvokeInput(heap, IsolatedState(state, a.description))
          IN  /\ sub' = [active |-> TRUE, name |-> a.subagent_type,
                         description |-> a.description, st |-> r.st,
                         calls |-> 0, parent |-> View(heap, state)]
              /\ UNCHANGED <<state, deltas, folded, writes, setup>>
              /\ heap' = Collect(r.heap, Roots')
              /\ last' = [who |-> "coordinator", tool |-> "task", args |-> a,
                          ret |-> <<>>, pre |-> View(heap, state),
                          subresult |-> View(EmptyHeap, EmptyState)]

\* the sub-agent calls one of the tools it was built with on its own state
SubToolCall ==
    \E tool \in AgentTools(sub.name) : \E a \in SubArgSets(tool) :
       /\ sub.active
       /\ sub.calls < MaxSubCalls
       /\ LET out == RunTool(tool, a, heap, sub.st)
              r == ApplyUpdate(out.heap, sub.st, out.upd)
          IN  /\ sub' = [sub EXCEPT !.st = r.st, !.calls = @ + 1]
              /\ UNCHANGED <<state, deltas, folded, writes, setup>>
              /\ heap' = Collect(r.heap, Roots')
              /\ last' = [who |-> "sub-agent", tool |-> tool, args |-> a,
                          ret |-> out.ret, pre |-> View(heap, sub.st),
                          subresult |-> View(EmptyHeap, EmptyState)]

\* the sub-agent answers, invoke returns its final state, and task returns
\* its update, which the runtime folds into the coordinator's state
TaskReturn ==
    \E answer \in Answers :
       /\ sub.active
       /\ LET result == [sub.st EXCEPT !.messages = @ \o <<Msg("ai", answer)>>]
              out == task_update(heap, result)
              r == ApplyUpdate(out.heap, state, out.upd)
          IN  /\ state' = r.st
              /\ sub' = Idle
              /\ UNCHANGED <<deltas, folded, writes, setup>>
              /\ heap' = Collect(r.heap, Roots')
              /\ last' = [who |-> "coordinator", tool |-> "task",
                          args |-> [NoArgs EXCEPT !.description = sub.description,
                                                  !.subagent_type = sub.name],
                          ret |-> out.ret, pre |-> sub.parent,
                          subresult |-> View(heap, result)]

Next ==
    \/ ReadLatestEmail
    \/ WriteEmailDraft
    \/ GetEmailContext
    \/ WebSearch
    \/ ThinkTool
    \/ Ls
    \/ ReadFile
    \/ WriteFile
    \/ WriteTodos
    \/ ReadTodos
    \/ TaskUnknown
    \/ TaskStart
    \/ SubToolCall
    \/ TaskReturn

Spec == Init /\ [][Next]_vars

-----------------------------------------------------------------------------
(***************************************************************************)
(* The fold specification: the files key of a state that starts without    *)
(* one, folded with file_reducer over every sequence of MaxDeltas deltas,  *)
(* each of them None or a table.                                           *)
(***************************************************************************)

OptTables == {None} \cup {Some(t) : t \in Tables}

InitFold ==
    /\ \E vs \in [1 .. MaxDeltas -> OptTables] :
          /\ heap = [a \in Addr |-> IF a <= MaxDeltas THEN vs[a] ELSE None]
          /\ deltas = [i \in 1 .. MaxDeltas |-> IF vs[i] = None THEN NoRef ELSE i]
    /\ folded = 0
    /\ state = EmptyState
    /\ sub = Idle
    /\ last = NoCall
    /\ writes = <<>>
    /\ setup = create_email_agent(subagents)

\* one delta folded into the files key
Fold ==
    /\ folded < Len(deltas)
    /\ LET r == Reduce(heap, state.files, deltas[folded + 1])
       IN  /\ state' = [state EXCEPT !.files = r.ref]
           /\ folded' = folded + 1
           /\ UNCHANGED <<sub, last, deltas, writes, setup>>
           /\ heap' = Collect(r.heap, Roots')

NextFold == Fold

SpecFold == InitFold /\ [][NextFold]_vars

\* the value of the i-th delta, and of the folded files key
Delta(i) == Deref(heap, deltas[i])

Acc == Deref(heap, state.files)

\* C1: file_reducer(left, right) is the reference merge: right if left is
\* absent, left if right is absent (so absent if both are), and otherwise the
\* table over keys(left) \cup keys(right) that takes right's value for every
\* key of right and left's value for every key of left alone.
IsReferenceMerge(L, R, out) ==
    /\ L = None => out = R
    /\ R = None => out = L
    /\ (L # None /\ R # None) =>
          /\ out # None
          /\ DOMAIN out[1] = (DOMAIN L[1]) \cup (DOMAIN R[1])
          /\ \A k \in DOMAIN R[1] : out[1][k] = R[1][k]
          /\ \A k \in (DOMAIN L[1]) \ (DOMAIN R[1]) : out[1][k] = L[1][k]

C1_ReducerIsReferenceMerge ==
    /\ folded = 1 => IsReferenceMerge(None, Delta(1), Acc)
    /\ folded = 2 => IsReferenceMerge(Delta(1), Delta(2), Acc)

\* C1's case: two tables that share a key with different values and each
\* have a key of their own have been merged
C1_Witness ==
    /\ folded = 2
    /\ Delta(1) # None /\ Delta(2) # None
    /\ \E k \in (DOMAIN Delta(1)[1]) \cap (DOMAIN Delta(2)[1]) :
          Delta(1)[1][k] # Delta(2)[1][k]
    /\ (DOMAIN Delta(1)[1]) \ (DOMAIN Delta(2)[1]) # {}

\* the last delta among 1 .. n that holds key k (0 if none does)
LastWriter(k, n) ==
    LET W == {i \in 1 .. n : Delta(i) # None /\ k \in DOMAIN Delta(i)[1]}
    IN  IF W = {} THEN 0 ELSE CHOOSE i \in W : \A j \in W : j <= i

\* C2: the merge is associative, and a left-to-right fold leaves every key
\* with the value of the last delta that holds it (and leaves no table at all
\* only if every delta was absent).
C2_FoldAssociativeLastWriterWins ==
    folded >= 3 =>
       /\ file_reducer(file_reducer(Delta(1), Delta(2)).val, Delta(3)).val
             = file_reducer(Delta(1), file_reducer(Delta(2), Delta(3)).val).val
       /\ folded = 3 =>
             Acc = file_reducer(Delta(1), file_reducer(Delta(2), Delta(3)).val).val
       /\ (Acc = None) <=> (\A i \in 1 .. folded : Delta(i) = None)
       /\ Acc # None =>
             /\ DOMAIN Acc[1] = {k \in Paths : LastWriter(k, folded) # 0}
             /\ \A k \in DOMAIN Acc[1] : Acc[1][k] = Delta(LastWriter(k, folded))[1][k]

\* C2's case: a fold is done whose first two deltas do not commute
C2_Witness ==
    /\ folded >= 3
    /\ file_reducer(Delta(1), Delta(2)).val # file_reducer(Delta(2), Delta(1)).val
    /\ Delta(3) # None

-----------------------------------------------------------------------------
(***************************************************************************)
(* The read specification: a run whose first call writes one file, of any  *)
(* content of at most MaxChunks chunks, and whose second call is read_file *)
(* with any path, offset and limit.  A chunk is a letter, a line break or  *)
(* a run of LineLimit letters, so that lines shorter than, as long as and  *)
(* longer than LineLimit occur.                                            *)
(***************************************************************************)

ChunkAlphabet == {Chr("a"), NL, Rep("z", LineLimit)}

RECURSIVE TextsOfChunks(_)
TextsOfChunks(k) ==
    IF k = 0 THEN {<<>>}
    ELSE {t \o c : t \in TextsOfChunks(k - 1), c \in ChunkAlphabet}

ExampleContent == Chr("a") \o NL \o Chr("b") \o NL \o Chr("c")

ReadContents == UNION {TextsOfChunks(k) : k \in 0 .. MaxChunks} \cup {ExampleContent}

ReadPath == Lit("notes.md", 8)

Offsets == -1 .. MaxChunks + 1

Limits == (-1 .. MaxChunks) \cup {DefaultLimit}

InitReadFile ==
    \E c \in ReadContents :
       LET s0 == [EmptyState EXCEPT !.messages = <<Msg("user", Instruction)>>]
           a == [NoArgs EXCEPT !.path = ReadPath, !.content = c]
           out == write_file(EmptyHeap, s0, a.path, a.content)
           r == ApplyUpdate(out.heap, s0, out.upd)
       IN  /\ state = r.st
           /\ heap = Collect(r.heap, {r.st.files})
           /\ last = [who |-> "coordinator", tool |-> "write_file", args |-> a,
                      ret |-> out.ret, pre |-> View(EmptyHeap, s0),
                      subresult |-> View(EmptyHeap, EmptyState)]
           /\ sub = Idle
           /\ deltas = <<>>
           /\ folded = 0
           /\ writes = <<>>
           /\ setup = create_email_agent(subagents)

ReadFileOnce ==
    /\ last.tool = "write_file"
    /\ \E p \in Paths, offset \in Offsets, limit \in Limits :
          CoordCall("read_file",
                    [NoArgs EXCEPT !.path = p, !.offset = offset, !.limit = limit])

NextReadFile == ReadFileOnce

SpecReadFile == InitReadFile /\ [][NextReadFile]_vars

-----------------------------------------------------------------------------
(***************************************************************************)
(* What the properties below read                                          *)
(***************************************************************************)

\* the coordinator's state as it is now, files read through the heap
Now == View(heap, state)

\* the last call was the coordinator's call of this tool, and is complete
CoordDid(tool) == last.who = "coordinator" /\ last.tool = tool /\ ~sub.active

\* the sub-agent names the configuration registers
RegisteredNames == {subagents[i].name : i \in 1 .. Len(subagents)}

\* nothing changed since before the call but the conversation, which gained
\* one tool message holding text
OnlyMessageAppended(pre, cur, text) ==
    /\ cur.messages = pre.messages \o <<Msg("tool", text)>>
    /\ cur.files = pre.files
    /\ cur.current_email = pre.current_email
    /\ cur.email_draft = pre.email_draft
    /\ cur.todos = pre.todos

\* text starts with this literal of the source
StartsWith(text, literal, width) ==
    text # <<>> /\ Head(text) = [ch |-> literal, n |-> 1, w |-> width]

\* the characters of a short text of single-character chunks
Chars(s) == [k \in 1 .. StrLen(s) |-> CharAt(s, k)]

IsDigit(c) == \E d \in 1 .. 10 : DigitChars[d] = c

DigitVal(c) == (CHOOSE d \in 1 .. 10 : DigitChars[d] = c) - 1

\* the number a sequence of digits denotes (-1 if it is not one)
RECURSIVE DigitsValue(_, _)
DigitsValue(cs, acc) ==
    IF cs = <<>> THEN acc
    ELSE IF ~IsDigit(Head(cs)) THEN -1
    ELSE DigitsValue(Tail(cs), 10 * acc + DigitVal(Head(cs)))

\* the number written right-aligned in a field: spaces, then digits
RECURSIVE FieldValue(_)
FieldValue(cs) ==
    IF cs = <<>> THEN -1
    ELSE IF Head(cs) = " " THEN FieldValue(Tail(cs))
    ELSE DigitsValue(cs, 0)

\* the positions where a chunk of s starts or ends
Cuts(s) ==
    {1} \cup UNION {{StrLen(SubSeq(s, 1, i)), StrLen(SubSeq(s, 1, i)) + 1} :
                       i \in 1 .. Len(s)}

\* t is the first k characters of s (all of s if s is shorter): texts of
\* single-character chunks are constant between cuts, so the characters are
\* compared at the cuts of both
IsPrefixOfLength(t, s, k) ==
    /\ StrLen(t) = Min(StrLen(s), k)
    /\ \A pos \in {q \in Cuts(t) \cup Cuts(s) : 1 <= q /\ q <= StrLen(t)} :
          CharAt(t, pos) = CharAt(s, pos)

SameText(t, s) == IsPrefixOfLength(t, s, StrLen(s)) /\ StrLen(t) = StrLen(s)

-----------------------------------------------------------------------------
(***************************************************************************)
(* Delegation (checked under Spec)                                         *)
(***************************************************************************)

\* the delegation to a registered sub-agent has returned
TaskReturned == CoordDid("task") /\ last.args.subagent_type \in RegisteredNames

\* C3: after a delegation to a registered sub-agent, the parent's
\* conversation is its conversation before the call followed by exactly one
\* message, which holds the sub-agent's final answer, and current_email,
\* email_draft and todos are what they were before the call.
C3_DelegationAddsOneMessage ==
    TaskReturned =>
       /\ Now.messages = last.pre.messages
             \o <<Msg("tool", LastMessage(last.subresult).content)>>
       /\ LastMessage(last.subresult).role = "ai"
       /\ Now.current_email = last.pre.current_email
       /\ Now.email_draft = last.pre.email_draft
       /\ Now.todos = last.pre.todos

\* C3's case: a delegation has returned from a sub-agent that called tools,
\* to a parent that had called tools and holds an email, a draft and todos
C3_Witness ==
    /\ TaskReturned
    /\ Len(last.subresult.messages) >= 3
    /\ Len(last.pre.messages) >= 2
    /\ last.pre.current_email # None

\* C4: a sub-agent starts on a conversation of one entry, the description
\* as a user message, with files, current_email, todos and email_draft equal
\* to the parent's at the call; and while it runs, what it does to its files
\* table leaves the parent's files table as it was at the call.
C4_IsolatedCopyByValue ==
    sub.active =>
       /\ sub.calls = 0 =>
             /\ sub.st.messages = <<Msg("user", sub.description)>>
             /\ View(heap, sub.st).files = sub.parent.files
             /\ sub.st.current_email = sub.parent.current_email
             /\ sub.st.email_draft = sub.parent.email_draft
             /\ sub.st.todos = sub.parent.todos
       /\ Now.files = sub.parent.files

\* C5 as claimed: after a delegation returns, the parent's files table is
\* the merge of its table before the call with the sub-agent's final table.
C5_FilesAreMergeOfSubagentTable ==
    TaskReturned =>
       IsReferenceMerge(last.pre.files, last.subresult.files, Now.files)

\* result.get("files", {}): the sub-agent's final table, empty if it has none
SubagentFiles == IF last.subresult.files = None THEN Some(<<>>) ELSE last.subresult.files

\* C5, amended: after a delegation returns, the parent's files table is the
\* merge of its table before the call with the sub-agent's final table, an
\* absent final table counting as the empty table; so the parent has a table,
\* every file of the sub-agent's table is in it with the sub-agent's content,
\* and every other file of the parent keeps its content.
C5_FilesAreMergeOfSubagentFiles ==
    TaskReturned =>
       /\ IsReferenceMerge(last.pre.files, SubagentFiles, Now.files)
       /\ Now.files # None
       /\ \A k \in DOMAIN SubagentFiles[1] :
             k \in DOMAIN Now.files[1] /\ Now.files[1][k] = SubagentFiles[1][k]
       /\ last.pre.files # None =>
             \A k \in (DOMAIN last.pre.files[1]) \ (DOMAIN SubagentFiles[1]) :
                k \in DOMAIN Now.files[1] /\ Now.files[1][k] = last.pre.files[1][k]

\* C5's case: the sub-agent overwrote a file of the parent, wrote a new one
\* and left a third as it was
C5_Witness ==
    /\ TaskReturned
    /\ last.pre.files # None /\ last.subresult.files # None
    /\ \E k \in DOMAIN last.pre.files[1] :
          last.subresult.files[1][k] # last.pre.files[1][k]
    /\ \E k \in DOMAIN last.pre.files[1] :
          last.subresult.files[1][k] = last.pre.files[1][k]
    /\ (DOMAIN last.subresult.files[1]) \ (DOMAIN last.pre.files[1]) # {}

\* C6: task with a name that is not registered returns an error text that
\* names every registered sub-agent; no sub-agent runs, the text is appended
\* to the conversation and nothing else changes.
C6_UnknownAgentIsAnErrorText ==
    (CoordDid("task") /\ last.args.subagent_type \notin RegisteredNames) =>
       /\ StartsWith(last.ret, "Error: invoked agent of type ", 29)
       /\ \A name \in RegisteredNames : \E j \in 1 .. Len(last.ret) : <<last.ret[j]>> = name
       /\ \E j \in 1 .. Len(last.ret) : <<last.ret[j]>> = last.args.subagent_type
       /\ OnlyMessageAppended(last.pre, Now, last.ret)
       /\ sub = Idle
       /\ Len(state.messages) < MaxMsgs => CanCall

\* C6's case: the unknown name was given by a coordinator that had files,
\* and the run can go on
C6_Witness ==
    /\ CoordDid("task") /\ last.args.subagent_type \notin RegisteredNames
    /\ last.pre.files # None
    /\ Len(state.messages) < MaxMsgs

-----------------------------------------------------------------------------
(***************************************************************************)
(* The email tools (checked under Spec)                                    *)
(***************************************************************************)

\* C7: write_email_draft with no current_email returns the error text as a
\* message, leaves email_draft unset and changes nothing else.
C7_DraftWithoutEmailIsAnError ==
    (CoordDid("write_email_draft") /\ last.pre.current_email = None) =>
       /\ StartsWith(last.ret, "Error: No email in context. Use read_latest_email first.", 56)
       /\ OnlyMessageAppended(last.pre, Now, last.ret)
       /\ Now.email_draft = None

\* C7's case: the draft was asked for, without an email, in a state that
\* already held files
C7_Witness ==
    /\ CoordDid("write_email_draft")
    /\ last.pre.current_email = None
    /\ last.pre.files # None

IsEmail002(e) ==
    /\ e.id = Lit("email_002", 9)
    /\ e.subject = Lit("Research Collaboration Inquiry", 30)
    /\ e.from_address = Lit("sarah.smith@startup.io", 22)
    /\ e.received_at = Lit("2026-01-14T14:15:00Z", 20)

\* C8: read_latest_email always sets current_email to the record email_002,
\* whatever it held before; so every call yields the same value, and
\* current_email, wherever it is set, is that record.
C8_ReadLatestEmailIdempotent ==
    /\ CoordDid("read_latest_email") =>
          /\ Now.current_email # None
          /\ IsEmail002(Now.current_email[1])
          /\ last.pre.current_email # None => Now.current_email = last.pre.current_email
          /\ Now.files = last.pre.files
          /\ Now.email_draft = last.pre.email_draft
          /\ Now.todos = last.pre.todos
    /\ state.current_email # None => IsEmail002(state.current_email[1])
    /\ sub.st.current_email # None => IsEmail002(sub.st.current_email[1])

\* C8's case: a second read_latest_email, another tool's call lying between
\* it and the first
C8_Witness ==
    /\ CoordDid("read_latest_email")
    /\ last.pre.current_email # None
    /\ Len(state.messages) = 4
    /\ state.messages[2] = state.messages[4]
    /\ state.messages[3] # state.messages[2]

-----------------------------------------------------------------------------
(***************************************************************************)
(* read_file (checked under SpecReadFile)                                  *)
(***************************************************************************)

\* the last call was read_file on a path the files table holds
ReadExisting ==
    /\ CoordDid("read_file")
    /\ last.pre.files # None
    /\ last.args.path \in DOMAIN last.pre.files[1]

ReadContent == last.pre.files[1][last.args.path]

TotalLines == Len(splitlines(ReadContent))

\* C9: for a file of n lines, not empty, and 0 <= offset < n, limit >= 0,
\* read_file returns min(limit, n - offset) lines; the i-th is the number
\* offset + i right-aligned in 6 columns, a tab, and line offset + i of the
\* file cut to its first 2000 characters.  "a\nb\nc" read with offset 1 and
\* limit 1 gives the one line "     2\tb".
C9_ReadFileReturnsNumberedSlice ==
    (ReadExisting /\ ReadContent # <<>>) =>
       LET lines == splitlines(ReadContent)
           n == Len(lines)
           offset == last.args.offset
           limit == last.args.limit
           got == splitlines(last.ret)
       IN  /\ (0 <= offset /\ offset < n /\ limit >= 0) =>
                 /\ Len(got) = Min(limit, n - offset)
                 /\ SameText(last.ret, Join(NL, got))
                 /\ \A i \in 1 .. Len(got) :
                       /\ StrLen(got[i]) >= 7
                       /\ FieldValue(Chars(Take(got[i], 6))) = offset + i
                       /\ CharAt(got[i], 7) = "\t"
                       /\ IsPrefixOfLength(Drop(got[i], 7), lines[offset + i], 2000)
           /\ (ReadContent = ExampleContent /\ offset = 1 /\ limit = 1) =>
                 SameText(last.ret, Rep(" ", 5) \o Chr("2") \o Chr("\t") \o Chr("b"))

\* C9's case: a slice from the middle of a file was read, and a line of it
\* was longer than 2000 characters
C9_Witness ==
    /\ ReadExisting /\ ReadContent # <<>>
    /\ last.args.offset >= 1 /\ last.args.offset < TotalLines
    /\ last.args.limit >= 1
    /\ StrLen(splitlines(ReadContent)[last.args.offset + 1]) > 2000

\* text is "Error: Offset <offset> exceeds file length (<total> lines)"
IsRangeError(text, offset, total) ==
    /\ StartsWith(text, "Error: Offset ", 14)
    /\ \E j \in 2 .. Len(text) - 1 :
          /\ text[j] = [ch |-> " exceeds file length (", n |-> 1, w |-> 22]
          /\ DigitsValue(Chars(SubSeq(text, 2, j - 1)), 0) = offset
          /\ DigitsValue(Chars(SubSeq(text, j + 1, Len(text) - 1)), 0) = total
          /\ j > 2 /\ j + 1 < Len(text)
    /\ text[Len(text)] = [ch |-> " lines)", n |-> 1, w |-> 7]

\* C10 as claimed: read_file on an existing path with offset >= total_lines
\* returns the out-of-range error, for every content and limit, and changes
\* nothing but the conversation.
C10_OffsetPastEndIsRangeError ==
    (ReadExisting /\ last.args.offset >= TotalLines) =>
       /\ IsRangeError(last.ret, last.args.offset, TotalLines)
       /\ OnlyMessageAppended(last.pre, Now, last.ret)

\* C10, amended: read_file on an existing path whose content is not empty,
\* with offset >= total_lines, returns the out-of-range error, which names
\* the offset and the number of lines, for every limit; it is neither an
\* empty text nor a fault, and nothing changes but the conversation.  For an
\* empty content the result is the empty-file message whatever the offset.
C10_OffsetPastEndOfNonEmptyFile ==
    ReadExisting =>
       /\ (ReadContent # <<>> /\ last.args.offset >= TotalLines) =>
             /\ IsRangeError(last.ret, last.args.offset, TotalLines)
             /\ OnlyMessageAppended(last.pre, Now, last.ret)
       /\ ReadContent = <<>> =>
             /\ StartsWith(last.ret, "File exists but is empty.", 25)
             /\ OnlyMessageAppended(last.pre, Now, last.ret)

\* C10's case: a file of several lines read from past its end with the
\* default limit
C10_Witness ==
    /\ ReadExisting /\ ReadContent # <<>>
    /\ TotalLines >= 2
    /\ last.args.offset > TotalLines
    /\ last.args.limit = DefaultLimit

\* C11: with current_email set, write_email_draft sets email_draft to the
\* text "To: " sender, "Subject: Re: " original subject, an empty line, the
\* content and the closing marker, whatever email_draft held before; it
\* answers with the preview and not with an error, appends one message and
\* changes nothing else.
C11_DraftIsComposedFromEmailAndContent ==
    (CoordDid("write_email_draft") /\ last.pre.current_email # None) =>
       LET e == last.pre.current_email[1]
       IN  /\ Now.email_draft =
                Some(Lit("To: ", 4) \o e.from_address
                     \o Lit("\nSubject: Re: ", 14) \o e.subject
                     \o Lit("\n\n", 2) \o last.args.content
                     \o Lit("\n\n---\nThis draft is ready for review and sending.\n", 50))
           /\ StartsWith(last.ret, "Email draft created and saved.\n\nPreview:\n", 43)
           /\ Now.messages = last.pre.messages \o <<Msg("tool", last.ret)>>
           /\ Now.files = last.pre.files
           /\ Now.current_email = last.pre.current_email
           /\ Now.todos = last.pre.todos

\* C11's case: a second draft, of another content, written over the first
C11_Witness ==
    /\ CoordDid("write_email_draft")
    /\ last.pre.current_email # None
    /\ last.pre.email_draft # None
    /\ last.pre.email_draft # Now.email_draft

-----------------------------------------------------------------------------
(***************************************************************************)
(* The tools and the loop (checked under Spec)                             *)
(***************************************************************************)

\* the state of whoever made the last call, files read through the heap
Callee == IF last.who = "sub-agent" THEN View(heap, sub.st) ELSE Now

\* the table t with key k set to value v
TableWith(t, k, v) == [q \in (DOMAIN t) \cup {k} |-> IF q = k THEN v ELSE t[q]]

\* C12: write_file overwrites unconditionally.  After its delta is merged the
\* path holds the content, every other path holds what it held, no path is
\* gone, current_email, email_draft and todos are as before and one message
\* was appended; and the delta write_file returns, from any state, is the
\* whole updated table.
C12_WriteFileOverwritesAndReturnsTable ==
    /\ last.tool = "write_file" =>
          LET before == IF last.pre.files = None THEN <<>> ELSE last.pre.files[1]
          IN  /\ Callee.files = Some(TableWith(before, last.args.path, last.args.content))
              /\ Callee.messages = last.pre.messages \o <<Msg("tool", last.ret)>>
              /\ Callee.current_email = last.pre.current_email
              /\ Callee.email_draft = last.pre.email_draft
              /\ Callee.todos = last.pre.todos
    /\ \A p \in Paths, c \in Contents :
          LET st == IF sub.active THEN sub.st ELSE state
              out == write_file(heap, st, p, c)
          IN  /\ out.upd.files # None
              /\ Deref(out.heap, out.upd.files[1]) = Some(TableWith(FilesOf(heap, st), p, c))
              /\ Len(out.upd.messages) = 1

\* C12's case: write_file has overwritten a file of a table that holds
\* another file as well
C12_Witness ==
    /\ last.tool = "write_file"
    /\ last.pre.files # None
    /\ last.args.path \in DOMAIN last.pre.files[1]
    /\ last.pre.files[1][last.args.path] # last.args.content
    /\ (DOMAIN last.pre.files[1]) \ {last.args.path} # {}

-----------------------------------------------------------------------------
(***************************************************************************)
(* The search specification: a run of web_search calls alone, with any     *)
(* max_results from 0 to MaxResultsAsked and queries with a space, longer  *)
(* than QueryCut, and equal in their first QueryCut characters.            *)
(***************************************************************************)

\* how many web_search calls the search specification makes
MaxSearches == 2

\* the largest max_results the search specification asks for
MaxResultsAsked == 3

SearchQueries ==
    {Chr("q") \o Chr(" ") \o Chr("r"),
     Rep("a", QueryCut) \o Chr("b"),
     Rep("a", QueryCut) \o Chr("c")}

SearchOnce ==
    /\ Len(state.messages) <= MaxSearches
    /\ \E q \in SearchQueries, m \in 0 .. MaxResultsAsked :
          CoordCall("web_search", [NoArgs EXCEPT !.query = q, !.max_results = m])

NextSearch == SearchOnce

SpecSearch == Init /\ [][NextSearch]_vars

\* the names web_search saves n results of a query under
SearchNames(query, n) == {SearchFilename(query, i) : i \in 0 .. n - 1}

\* text holds the chunks of part, in a row
Holds(text, part) ==
    \E j \in 0 .. Len(text) - Len(part) : SubSeq(text, j + 1, j + Len(part)) = part

\* C13 as claimed: web_search produces max_results records, for every query
\* and every max_results; after the call the files table holds max_results
\* files of this search, named after the sanitized query and an index, and
\* the summary names each of them.
C13_SearchSavesMaxResults ==
    CoordDid("web_search") =>
       LET m == last.args.max_results
           names == SearchNames(last.args.query, m)
       IN  /\ Len(mock_tavily_search(last.args.query, m)) = m
           /\ Cardinality(names) = m
           /\ Now.files # None
           /\ names \subseteq DOMAIN Now.files[1]
           /\ \A name \in names : Holds(last.ret, name)

\* a state delta as a value: the update of a tool with its files table read
\* through the heap the tool left
DeltaValue(out) ==
    [messages |-> out.upd.messages,
     files |-> IF out.upd.files = None THEN None ELSE Deref(out.heap, out.upd.files[1]),
     current_email |-> out.upd.current_email,
     email_draft |-> out.upd.email_draft,
     todos |-> out.upd.todos]

\* a state value folded with a delta value: the table merge for files,
\* overwrite for current_email, email_draft and todos, append for messages
FoldValue(v, d) ==
    [messages |-> v.messages \o d.messages,
     files |-> file_reducer(v.files, d.files).val,
     current_email |-> IF d.current_email = None THEN v.current_email ELSE d.current_email,
     email_draft |-> IF d.email_draft = None THEN v.email_draft ELSE d.email_draft,
     todos |-> IF d.todos = None THEN v.todos ELSE d.todos]

\* the delta of the coordinator's call that this step completes
StepDelta ==
    IF last'.tool = "task"
    THEN IF sub.active
         THEN [DeltaValue(Out(heap, TextUpdate(last'.ret), last'.ret))
                  EXCEPT !.files = IF last'.subresult.files = None THEN Some(<<>>)
                                   ELSE last'.subresult.files]
         ELSE DeltaValue(Out(heap, TextUpdate(last'.ret), last'.ret))
    ELSE DeltaValue(RunTool(last'.tool, last'.args, heap, state))

\* C14: every call of the coordinator reads the state as all earlier deltas
\* left it, and its own delta is merged before the next call.  A call that
\* starts reads the current state; the state after a call is the state the
\* call read folded with the call's delta; and a delegation that starts
\* leaves the state to be read by the sub-agent as it is.
C14_DeltasAreFoldedInOrder ==
    [][/\ (last'.who = "coordinator" /\ ~sub.active /\ ~sub'.active) =>
             /\ last'.pre = Now
             /\ Now' = FoldValue(Now, StepDelta)
       /\ (~sub.active /\ sub'.active) =>
             /\ sub'.parent = Now
             /\ state' = state
       /\ (sub.active /\ ~sub'.active) =>
             /\ last'.pre = sub.parent
             /\ Now' = FoldValue(sub.parent, StepDelta)]_vars

\* C14's case: a call that reads what two earlier calls put into the state
C14_Witness ==
    /\ CoordDid("read_todos")
    /\ last.pre.todos # None /\ last.pre.todos # Some(<<>>)
    /\ last.pre.files # None

-----------------------------------------------------------------------------
(***************************************************************************)
(* The overlap specification: MaxOverlap file-writing calls (write_file,   *)
(* web_search, a delegation) that all start from the same state, a         *)
(* snapshot holding any table or none.  Each call runs on that state, the  *)
(* steps of a sub-agent interleaved with the other call; the delta of a    *)
(* call waits in deltas from the moment the call returns; once every call  *)
(* has returned the deltas are folded into the state one at a time, in the *)
(* order the calls returned.                                               *)
(***************************************************************************)

\* how many calls overlap
MaxOverlap == 2

SnapshotContent == Chr("s")

Snapshots == {None} \cup {Some([k \in D |-> SnapshotContent]) : D \in SUBSET Paths}

WritingTools == {"write_file", "web_search"}

\* what a file-writing tool writes: the keys it assigns, with their values
ToolWrites(tool, a) ==
    IF tool = "write_file" THEN (a.path :> a.content)
    ELSE LET results == mock_tavily_search(a.query, a.max_results)
             name(i) == SearchFilename(a.query, i - 1)
         IN  [k \in {name(i) : i \in 1 .. Len(results)} |->
                SearchFileContent(a.query,
                    results[CHOOSE i \in 1 .. Len(results) : name(i) = k])]

\* the table w laid over the table t
Over(t, w) == [k \in (DOMAIN t) \cup (DOMAIN w) |-> IF k \in DOMAIN w THEN w[k] ELSE t[k]]

\* the calls that have returned, and the calls that have started
Returned == Len(deltas)

Started == Len(writes)

InitOverlap ==
    /\ \E snap \in Snapshots :
          /\ heap = [EmptyHeap EXCEPT ![1] = snap]
          /\ state = [EmptyState EXCEPT !.messages = <<Msg("user", Instruction)>>,
                                        !.files = IF snap = None THEN NoRef ELSE 1]
    /\ sub = Idle
    /\ last = NoCall
    /\ deltas = <<>>
    /\ folded = 0
    /\ writes = <<>>
    /\ setup = create_email_agent(subagents)

\* the coordinator's write_file or web_search, run on the snapshot state; if
\* a delegation is under way its entry of writes stays the last one
OverlapCall ==
    \E tool \in WritingTools : \E a \in ArgSets(tool) :
       /\ Started < MaxOverlap
       /\ LET out == RunTool(tool, a, heap, state)
              w == ToolWrites(tool, a)
          IN  /\ deltas' = Append(deltas, out.upd.files[1])
              /\ writes' = IF sub.active
                           THEN SubSeq(writes, 1, Len(writes) - 1) \o <<w>>
                                \o <<writes[Len(writes)]>>
                           ELSE Append(writes, w)
              /\ last' = [who |-> "coordinator", tool |-> tool, args |-> a,
                          ret |-> out.ret, pre |-> View(heap, state),
                          subresult |-> View(EmptyHeap, EmptyState)]
              /\ UNCHANGED <<state, sub, folded, setup>>
              /\ heap' = Collect(out.heap, Roots')

\* task up to sub_agent.invoke, on the snapshot state
OverlapTaskStart ==
    \E a \in ArgSets("task") :
       /\ Started < MaxOverlap
       /\ ~sub.active
       /\ a.subagent_type \in AgentNames
       /\ LET r == InvokeInput(heap, IsolatedState(state, a.description))
          IN  /\ sub' = [active |-> TRUE, name |-> a.subagent_type,
                         description |-> a.description, st |-> r.st,
                         calls |-> 0, parent |-> View(heap, state)]
              /\ writes' = Append(writes, <<>>)
              /\ last' = [who |-> "coordinator", tool |-> "task", args |-> a,
                          ret |-> <<>>, pre |-> View(heap, state),
                          subresult |-> View(EmptyHeap, EmptyState)]
              /\ UNCHANGED <<state, deltas, folded, setup>>
              /\ heap' = Collect(r.heap, Roots')

\* the sub-agent's write_file or web_search, on its own state
OverlapSubCall ==
    \E tool \in AgentTools(sub.name) \cap WritingTools : \E a \in SubArgSets(tool) :
       /\ sub.active
       /\ sub.calls < MaxSubCalls
       /\ LET out == RunTool(tool, a, heap, sub.st)
              r == ApplyUpdate(out.heap, sub.st, out.upd)
          IN  /\ sub' = [sub EXCEPT !.st = r.st, !.calls = @ + 1]
              /\ writes' = [writes EXCEPT ![Len(writes)] = Over(@, ToolWrites(tool, a))]
              /\ last' = [who |-> "sub-agent", tool |-> tool, args |-> a,
                          ret |-> out.ret, pre |-> View(heap, sub.st),
                          subresult |-> View(EmptyHeap, EmptyState)]
              /\ UNCHANGED <<state, deltas, folded, setup>>
              /\ heap' = Collect(r.heap, Roots')

\* the sub-agent answers and task returns its update, which waits
OverlapTaskReturn ==
    \E answer \in Answers :
       /\ sub.active
       /\ Returned = Started - 1
       /\ LET result == [sub.st EXCEPT !.messages = @ \o <<Msg("ai", answer)>>]
              out == task_update(heap, result)
          IN  /\ deltas' = Append(deltas, out.upd.files[1])
              /\ sub' = Idle
              /\ last' = [who |-> "coordinator", tool |-> "task",
                          args |-> [NoArgs EXCEPT !.description = sub.description,
                                                  !.subagent_type = sub.name],
                          ret |-> out.ret, pre |-> sub.parent,
                          subresult |-> View(heap, result)]
              /\ UNCHANGED <<state, folded, writes, setup>>
              /\ heap' = Collect(out.heap, Roots')

\* every call has returned: the next waiting delta is folded
OverlapMerge ==
    /\ Returned = MaxOverlap
    /\ ~sub.active
    /\ Fold

NextOverlap ==
    \/ OverlapCall
    \/ OverlapTaskStart
    \/ OverlapSubCall
    \/ OverlapTaskReturn
    \/ OverlapMerge

SpecOverlap == InitOverlap /\ [][NextOverlap]_vars

\* the last call, in the order of the merges, that wrote key k (0 if none)
LastWritingCall(k) ==
    LET W == {i \in 1 .. Len(writes) : k \in DOMAIN writes[i]}
    IN  IF W = {} THEN 0 ELSE CHOOSE i \in W : \A j \in W : j <= i

\* C15 as claimed: calls that start from the same state and whose deltas are
\* folded one at a time leave every key with the value of the last call that
\* wrote it; a value written by a call folded earlier is not lost, nor put
\* back to the snapshot's, by a call folded later that wrote other keys.
C15_OverlapKeepsLastWriter ==
    (Returned = MaxOverlap /\ folded = MaxOverlap /\ ~sub.active) =>
       \A i \in 1 .. Len(writes) : \A k \in DOMAIN writes[i] :
          /\ Acc # None
          /\ k \in DOMAIN Acc[1]
          /\ Acc[1][k] = writes[LastWritingCall(k)][k]

-----------------------------------------------------------------------------
(***************************************************************************)
(* The setup specification: create_email_agent on any configuration of one *)
(* or two sub-agents, each with no "tools" key or with any set of tool     *)
(* names, one of which no tool has; then, if an agent was returned,        *)
(* process_email and one delegation.                                       *)
(***************************************************************************)

\* a name no tool of the registry has
UnknownTool == "send_email"

ConfigToolNames == {"read_file", "write_file", UnknownTool}

AgentConfigs(name) ==
    {[name |-> name]} \cup {[name |-> name, tools |-> T] : T \in SUBSET ConfigToolNames}

Configurations ==
    {<<a>> : a \in AgentConfigs(ResearchAgent) \cup AgentConfigs(ResponseAgent)}
    \cup {<<a, b>> : a \in AgentConfigs(ResearchAgent), b \in AgentConfigs(ResponseAgent)}

InitSetup ==
    /\ \E configuration \in Configurations :
          setup = [configuration |-> configuration, status |-> "none", agents |-> <<>>]
    /\ heap = EmptyHeap
    /\ state = EmptyState
    /\ sub = Idle
    /\ last = NoCall
    /\ deltas = <<>>
    /\ folded = 0
    /\ writes = <<>>

CreateEmailAgent ==
    /\ setup.status = "none"
    /\ setup' = create_email_agent(setup.configuration)
    /\ UNCHANGED <<heap, state, sub, last, deltas, folded, writes>>

\* process_email(agent, ...): there is an agent to run, and the run starts on
\* the instruction
ProcessEmail ==
    /\ setup.status = "built"
    /\ state.messages = <<>>
    /\ state' = [EmptyState EXCEPT !.messages = <<Msg("user", Instruction)>>]
    /\ UNCHANGED <<heap, sub, last, deltas, folded, writes, setup>>

\* the tools the agent of this name was built with
BuiltTools(name) ==
    UNION {setup.agents[i].tools : i \in {j \in DOMAIN setup.agents : setup.agents[j].name = name}}

\* task with an agent that was built
SetupTaskStart ==
    \E i \in DOMAIN setup.agents : \E d \in Descriptions :
       /\ Len(state.messages) = 1
       /\ ~sub.active
       /\ LET r == InvokeInput(heap, IsolatedState(state, d))
          IN  /\ sub' = [active |-> TRUE, name |-> setup.agents[i].name,
                         description |-> d, st |-> r.st,
                         calls |-> 0, parent |-> View(heap, state)]
              /\ UNCHANGED <<state, deltas, folded, writes, setup>>
              /\ heap' = Collect(r.heap, Roots')
              /\ last' = [who |-> "coordinator", tool |-> "task",
                          args |-> [NoArgs EXCEPT !.description = d,
                                                  !.subagent_type = setup.agents[i].name],
                          ret |-> <<>>, pre |-> View(heap, state),
                          subresult |-> View(EmptyHeap, EmptyState)]

\* the sub-agent calls a tool it was built with
SetupSubCall ==
    \E tool \in BuiltTools(sub.name) \cap base_tools : \E a \in SubArgSets(tool) :
       /\ sub.active
       /\ sub.calls < MaxSubCalls
       /\ LET out == RunTool(tool, a, heap, sub.st)
              r == ApplyUpdate(out.heap, sub.st, out.upd)
          IN  /\ sub' = [sub EXCEPT !.st = r.st, !.calls = @ + 1]
              /\ UNCHANGED <<state, deltas, folded, writes, setup>>
              /\ heap' = Collect(r.heap, Roots')
              /\ last' = [who |-> "sub-agent", tool |-> tool, args |-> a,
                          ret |-> out.ret, pre |-> View(heap, sub.st),
                          subresult |-> View(EmptyHeap, EmptyState)]

NextSetup ==
    \/ CreateEmailAgent
    \/ ProcessEmail
    \/ SetupTaskStart
    \/ SetupSubCall
    \/ TaskReturn

SpecSetup == InitSetup /\ [][NextSetup]_vars

\* the configuration names a tool the registry does not hold
NamesUnknownTool(configuration) ==
    \E i \in 1 .. Len(configuration) :
       /\ "tools" \in DOMAIN configuration[i]
       /\ configuration[i].tools \ base_tools # {}

\* C16: a configuration that names a tool the registry does not hold fails
\* at setup.  create_email_agent raises and returns no agent, for none of the
\* sub-agents; so a run, and a delegation in it, is of a configuration whose
\* every tool name was found, and a sub-agent is built with registry tools
\* alone.
C16_UnknownToolFailsAtSetup ==
    /\ setup.status # "none" =>
          /\ NamesUnknownTool(setup.configuration) <=> setup.status = "KeyError"
          /\ setup.status = "KeyError" => setup.agents = <<>>
    /\ (state.messages # <<>> \/ sub.active \/ last.who # "none") =>
          /\ setup.status = "built"
          /\ ~NamesUnknownTool(setup.configuration)
    /\ sub.active => BuiltTools(sub.name) \subseteq base_tools

\* C16's case: the second of two sub-agents names the unknown tool among
\* known ones, the first names known tools alone, and setup has failed
C16_Witness ==
    /\ setup.status = "KeyError"
    /\ Len(setup.configuration) = 2
    /\ "tools" \in DOMAIN setup.configuration[1]
    /\ setup.configuration[1].tools \subseteq base_tools
    /\ "tools" \in DOMAIN setup.configuration[2]
    /\ UnknownTool \in setup.configuration[2].tools
    /\ setup.configuration[2].tools \cap base_tools # {}

-----------------------------------------------------------------------------
(***************************************************************************)
(* Invariants of a run (checked under Spec)                                *)
(***************************************************************************)

\* C17: the key set of the coordinator's files table never shrinks.  Once
\* the state has a table it keeps one, and every path of the table before a
\* step is a path of the table after it.
C17_FilesKeysNeverShrink ==
    [][Now.files # None =>
          /\ Now'.files # None
          /\ DOMAIN Now.files[1] \subseteq DOMAIN Now'.files[1]]_vars

\* C17's case: a delegation has returned whose sub-agent overwrote a file of
\* the parent and added none
C17_Witness ==
    /\ CoordDid("task") /\ last.subresult.files # None
    /\ last.pre.files # None
    /\ Now.files # None
    /\ DOMAIN Now.files[1] = DOMAIN last.pre.files[1]
    /\ \E k \in DOMAIN last.pre.files[1] : Now.files[1][k] # last.pre.files[1][k]

\* C18: in a run started by process_email, a draft is there only if an email
\* is, the email is the last record of MOCK_EMAILS whenever there is one, and
\* no step unsets or changes it.
C18_DraftNeedsEmailAndEmailStays ==
    /\ [](/\ Now.email_draft # None => Now.current_email # None
          /\ Now.current_email # None =>
                Now.current_email[1] = MOCK_EMAILS[Len(MOCK_EMAILS)])
    /\ [][Now.current_email # None => Now'.current_email = Now.current_email]_vars

\* C18's case: a call made, and a delegation gone through, after the draft
\* was written
C18_Witness ==
    /\ CoordDid("task") /\ last.subresult.messages # <<>>
    /\ last.pre.email_draft # None
    /\ Now.email_draft # None

\* the tools that start a delegation or write current_email, email_draft or
\* todos
CoordinatorOnlyTools == {"task", "read_latest_email", "write_email_draft", "write_todos"}

\* C19: delegation never nests and a sub-agent cannot write the email, the
\* draft or the todos.  No registered sub-agent is configured with, or built
\* with, task, read_latest_email, write_email_draft or write_todos, and the
\* registry the sub-agents' tools are looked up in does not hold task; a
\* sub-agent calls none of them, and as long as it runs its current_email,
\* email_draft and todos are the ones it started with.
C19_SubagentsNeitherDelegateNorWriteEmailState ==
    /\ \A i \in 1 .. Len(subagents) : subagents[i].tools \cap CoordinatorOnlyTools = {}
    /\ \A name \in AgentNames : AgentTools(name) \cap CoordinatorOnlyTools = {}
    /\ "task" \notin base_tools
    /\ last.who = "sub-agent" => last.tool \notin CoordinatorOnlyTools
    /\ sub.active =>
          /\ sub.st.current_email = sub.parent.current_email
          /\ sub.st.email_draft = sub.parent.email_draft
          /\ sub.st.todos = sub.parent.todos

\* C19's case: a sub-agent that started with an email in its state has made
\* two calls, the last one a write
C19_Witness ==
    /\ sub.active
    /\ sub.calls >= 2
    /\ last.who = "sub-agent" /\ last.tool = "write_file"
    /\ sub.parent.current_email # None
    /\ sub.st.current_email # None

=============================================================================
